---- MODULE Spec2Model ----
(***************************************************************************)
(* NzbDownloadsMultiUnpack: the archive classifiers (ArchiverRar,          *)
(* Archiver7z), the removal-command builders and main() of                 *)
(* src/nzbdownloadsmultiunpack/multiunpackrecursive.py.                    *)
(*                                                                         *)
(* Text is a sequence of one-character strings.  Two characters that have  *)
(* no portable spelling are written as tokens: LF (a newline) and EACUTE   *)
(* (a non-ASCII letter).  Digits are the ASCII digits.                     *)
(* Paths are POSIX paths: [parent |-> directory text, name |-> file name]. *)
(* resolve() makes a path absolute against Cwd; symbolic links and ".."    *)
(* components are not part of the model.                                   *)
(***************************************************************************)
EXTENDS Integers, Sequences, FiniteSets, TLC

VARIABLES
    win,        \* sys.platform == "win32"
    ret,        \* the last direct call of a classifier method and its result
    pc,         \* position of main(): "walk", "archives", "done"
    visited,    \* directories os.walk has yielded so far, in order
    root,       \* os.walk: the current directory
    files,      \* os.walk: the current directory's files ([name, st_size])
    archives,   \* representatives of the current directory not yet iterated
    pwd,        \* main's local pwd
    commands,   \* main's list of command lines
    entries,    \* history: what each command line was built from
    found,      \* history: the (directory, representative) pairs found
    stdout,     \* lines printed to standard output
    exit        \* how main ended: "", "0", "2", "AssertionError"

vars == <<win, ret, pc, visited, root, files, archives, pwd, commands, entries,
          found, stdout, exit>>

mainvars == <<pc, visited, root, files, archives, pwd, commands, entries, found,
              stdout, exit>>

----------------------------------------------------------------------------
(* Bounds *)

\* most files in one directory listing
MaxFiles == 2
\* most directories os.walk yields
MaxDirs == 2

----------------------------------------------------------------------------
(* Characters and text *)

LF == "LF"
EACUTE == "EACUTE"
QUOTE == "\""

IsAscii(c) == c # EACUTE

\* str.isascii
isascii(s) == \A i \in 1..Len(s) : IsAscii(s[i])

\* [0-9] and \d over the model's characters
IsDigit(c) == c \in {"0", "1", "2", "3", "4", "5", "6", "7", "8", "9"}

DigitVal(c) ==
    CASE c = "0" -> 0 [] c = "1" -> 1 [] c = "2" -> 2 [] c = "3" -> 3
      [] c = "4" -> 4 [] c = "5" -> 5 [] c = "6" -> 6 [] c = "7" -> 7
      [] c = "8" -> 8 [] c = "9" -> 9

lowerchar(c) ==
    CASE c = "R" -> "r" [] c = "A" -> "a" [] c = "Z" -> "z" [] c = "P" -> "p"
      [] c = "T" -> "t" [] c = "X" -> "x" [] OTHER -> c

\* str.lower
lower(s) == [i \in 1..Len(s) |-> lowerchar(s[i])]

Take(s, n) == SubSeq(s, 1, n)
Drop(s, n) == SubSeq(s, n + 1, Len(s))

\* str.endswith
endswith(s, suf) ==
    Len(s) >= Len(suf) /\ SubSeq(s, Len(s) - Len(suf) + 1, Len(s)) = suf

\* a pattern literal under re.IGNORECASE, matched against the end of p
EndsWithCI(p, suf) == endswith(lower(p), suf)

Max(S) == CHOOSE m \in S : \A k \in S : k <= m

\* length of the longest run of digits p ends with
DigitRun(p) ==
    Max({k \in 0..Len(p) : \A i \in (Len(p) - k + 1)..Len(p) : IsDigit(p[i])})

\* "$" without re.MULTILINE matches at the end of the text and also just
\* before a newline that ends the text.  None of the program's patterns can
\* consume that newline, so a match ends here or nowhere.
re_dollar(s) == IF Len(s) > 0 /\ s[Len(s)] = LF THEN Len(s) - 1 ELSE Len(s)

RECURSIVE NumVal(_)
NumVal(d) == IF d = <<>> THEN 0 ELSE 10 * NumVal(Take(d, Len(d) - 1)) + DigitVal(d[Len(d)])

\* str(n) of a natural number
RECURSIVE ToDecimal(_)
ToDecimal(n) ==
    LET c == <<"0", "1", "2", "3", "4", "5", "6", "7", "8", "9">>[(n % 10) + 1]
    IN  IF n < 10 THEN <<c>> ELSE ToDecimal(n \div 10) \o <<c>>

S_rar == <<".", "r", "a", "r">>
S_part == <<".", "p", "a", "r", "t">>
S_7z == <<".", "7", "z">>
S_001 == <<".", "0", "0", "1">>
S_r00 == <<".", "r", "0", "0">>
S_par2 == <<".", "p", "a", "r", "2">>

----------------------------------------------------------------------------
(* Optional values (None) and results of calls that may raise *)

None == [some |-> FALSE, val |-> <<>>]
Some(v) == [some |-> TRUE, val |-> v]

Returned(v) == [raised |-> "", value |-> v]
Raised(e) == [raised |-> e, value |-> <<>>]

----------------------------------------------------------------------------
(* pathlib.Path *)

Path(parent, name) == [parent |-> parent, name |-> name]

\* PurePath.suffix: from the last dot, unless the dot is the first or the
\* last character of the name
suffix(p) ==
    LET name == p.name
        dots == {i \in 1..Len(name) : name[i] = "."}
    IN  IF dots = {} THEN <<>>
        ELSE LET i == Max(dots)
             IN  IF 1 < i /\ i < Len(name) THEN Drop(name, i - 1) ELSE <<>>

\* PurePath.with_suffix
with_suffix(p, s) ==
    Path(p.parent, Take(p.name, Len(p.name) - Len(suffix(p))) \o s)

\* PurePath.with_name
with_name(p, name) == Path(p.parent, name)

Cwd == <<"/", "w">>

\* Path.resolve: absolute
resolve(p) ==
    Path(IF p.parent # <<>> /\ p.parent[1] = "/" THEN p.parent
         ELSE IF p.parent = <<>> THEN Cwd
         ELSE Cwd \o <<"/">> \o p.parent,
         p.name)

\* str(path)
str(p) == IF p.parent = <<>> THEN p.name ELSE p.parent \o <<"/">> \o p.name

\* Path.exists, in a directory that holds the files named in dirnames
exists(p, dirnames) == p.name \in dirnames

----------------------------------------------------------------------------
(* Archiver, ArchiverRar *)

T_rm_fv == <<"r", "m", " ", "-", "f", "v">>
T_del_q == <<"d", "e", "l", " ", "/", "q">>

\* Archiver.__init__: self.rm_command
rm_command(w) == IF w THEN T_del_q ELSE T_rm_fv

\* re.search(r"\.part[0-9]+\.rar$", filename, re.IGNORECASE) is not None
ArchiverRar_is_volume_part(filename) ==
    LET p == Take(filename, re_dollar(filename))
    IN  /\ EndsWithCI(p, S_rar)
        /\ LET q == Take(p, Len(p) - 4)
               k == DigitRun(q)
           IN  k >= 1 /\ EndsWithCI(Take(q, Len(q) - k), S_part)

\* a primer test that takes any part number ending in 1: r"\.part[0-9]*1\.rar$"
ArchiverRar_is_volume_primer_AnyOnes(filename) ==
    LET p == Take(filename, re_dollar(filename))
    IN  /\ EndsWithCI(p, S_rar)
        /\ LET q == Take(p, Len(p) - 4)
               k == DigitRun(q)
           IN  /\ k >= 1
               /\ q[Len(q)] = "1"
               /\ EndsWithCI(Take(q, Len(q) - k), S_part)

\* re.search(r"\.part0*1\.rar$", filename, re.IGNORECASE) is not None
ArchiverRar_is_volume_primer(filename) ==
    LET p == Take(filename, re_dollar(filename))
    IN  /\ EndsWithCI(p, S_rar)
        /\ LET q == Take(p, Len(p) - 4)
               k == DigitRun(q)
           IN  /\ k >= 1
               /\ q[Len(q)] = "1"
               /\ \A i \in (Len(q) - k + 1)..(Len(q) - 1) : q[i] = "0"
               /\ EndsWithCI(Take(q, Len(q) - k), S_part)

\* strips the final ".rar" alone, never a part segment before it
ArchiverRar_get_basename_RarOnly(filename) ==
    LET e == re_dollar(filename)
        p == Take(filename, e)
    IN  IF ~EndsWithCI(p, S_rar) THEN filename
        ELSE Take(filename, Len(p) - 4) \o Drop(filename, e)

\* re.sub(r"(\.part\d+)?\.rar$", "", filename, count=1, flags=re.IGNORECASE):
\* the leftmost match is the one that takes the optional group
ArchiverRar_get_basename(filename) ==
    LET e == re_dollar(filename)
        p == Take(filename, e)
    IN  IF ~EndsWithCI(p, S_rar) THEN filename
        ELSE LET q == Take(p, Len(p) - 4)
                 k == DigitRun(q)
                 start == IF k >= 1 /\ EndsWithCI(Take(q, Len(q) - k), S_part)
                          THEN Len(q) - k - 5
                          ELSE Len(q)
             IN  Take(filename, start) \o Drop(filename, e)

\* a builder that forgets resolve() on the archive of a single-file set
ArchiverRar_build_rm_command_Unresolved(rm, filepath, dirnames) ==
    IF suffix(filepath) # S_rar THEN Raised("AssertionError")
    ELSE IF ~ArchiverRar_is_volume_part(filepath.name)
    THEN IF exists(with_suffix(filepath, S_r00), dirnames)
         THEN Returned(rm \o <<" ", QUOTE>> \o str(resolve(filepath)) \o <<QUOTE, " ">>
                \o <<QUOTE>> \o str(resolve(with_suffix(filepath, <<>>)))
                \o <<QUOTE, ".", "r", "*", " ">>
                \o <<QUOTE>> \o str(resolve(with_suffix(filepath, <<>>)))
                \o S_par2 \o <<QUOTE>>)
         ELSE Returned(rm \o <<" ", QUOTE>> \o str(filepath) \o <<QUOTE, " ">>
                \o <<QUOTE>> \o str(resolve(with_suffix(filepath, S_par2))) \o <<QUOTE>>)
    ELSE LET basename == ArchiverRar_get_basename(filepath.name)
             basefilepath == str(resolve(with_name(filepath, basename)))
         IN  Returned(rm \o <<" ", QUOTE>> \o basefilepath
                \o <<QUOTE, ".", "p", "a", "r", "t", "*", ".", "r", "a", "r", " ">>
                \o <<QUOTE>> \o basefilepath \o S_par2 \o <<QUOTE>>)

\* ArchiverRar.build_rm_command(filepath), self.rm_command = rm, in a
\* directory that holds the files named in dirnames
ArchiverRar_build_rm_command(rm, filepath, dirnames) ==
    IF suffix(filepath) # S_rar THEN Raised("AssertionError")
    ELSE IF ~ArchiverRar_is_volume_part(filepath.name)
    THEN IF exists(with_suffix(filepath, S_r00), dirnames)
         THEN Returned(rm \o <<" ", QUOTE>> \o str(resolve(filepath)) \o <<QUOTE, " ">>
                \o <<QUOTE>> \o str(resolve(with_suffix(filepath, <<>>)))
                \o <<QUOTE, ".", "r", "*", " ">>
                \o <<QUOTE>> \o str(resolve(with_suffix(filepath, <<>>)))
                \o S_par2 \o <<QUOTE>>)
         ELSE Returned(rm \o <<" ", QUOTE>> \o str(resolve(filepath)) \o <<QUOTE, " ">>
                \o <<QUOTE>> \o str(resolve(with_suffix(filepath, S_par2))) \o <<QUOTE>>)
    ELSE LET basename == ArchiverRar_get_basename(filepath.name)
             basefilepath == str(resolve(with_name(filepath, basename)))
         IN  Returned(rm \o <<" ", QUOTE>> \o basefilepath
                \o <<QUOTE, ".", "p", "a", "r", "t", "*", ".", "r", "a", "r", " ">>
                \o <<QUOTE>> \o basefilepath \o S_par2 \o <<QUOTE>>)

\* ArchiverRar.find_archive_files(files): the two loops fill one set
ArchiverRar_find_archive_files(names) ==
    {filename \in names :
        endswith(lower(filename), S_rar) /\ ~ArchiverRar_is_volume_part(filename)}
    \cup {filename \in names : ArchiverRar_is_volume_primer(filename)}

----------------------------------------------------------------------------
(* Archiver7z *)

\* re.search(r"\.7z(\.0*1)?$", filename, re.IGNORECASE) is not None
Archiver7z_is_7zip(filename) ==
    LET p == Take(filename, re_dollar(filename))
        k == DigitRun(p)
    IN  \/ EndsWithCI(p, S_7z)
        \/ /\ k >= 1
           /\ p[Len(p)] = "1"
           /\ \A i \in (Len(p) - k + 1)..(Len(p) - 1) : p[i] = "0"
           /\ EndsWithCI(Take(p, Len(p) - k), S_7z \o <<".">>)

\* re.sub(r"\.7z(\.[0-9]+)?$", "", filename, count=1, flags=re.IGNORECASE)
Archiver7z_get_basename(filename) ==
    LET e == re_dollar(filename)
        p == Take(filename, e)
        k == DigitRun(p)
    IN  IF k >= 1 /\ EndsWithCI(Take(p, Len(p) - k), S_7z \o <<".">>)
        THEN Take(filename, Len(p) - k - 4) \o Drop(filename, e)
        ELSE IF EndsWithCI(p, S_7z)
        THEN Take(filename, Len(p) - 3) \o Drop(filename, e)
        ELSE filename

\* a builder whose assertion tests the suffix against the text ".7z.001"
\* (substring) instead of the tuple (".7z", ".001")
Archiver7z_build_rm_command_Substring(rm, filepath) ==
    IF \A i \in 0..(Len(S_7z \o S_001) - Len(suffix(filepath))) :
           SubSeq(S_7z \o S_001, i + 1, i + Len(suffix(filepath))) # suffix(filepath)
    THEN Raised("AssertionError")
    ELSE LET basename == Archiver7z_get_basename(filepath.name)
             basefilepath == str(resolve(with_name(filepath, basename)))
         IN  Returned(rm \o <<" ", QUOTE>> \o basefilepath
                \o <<QUOTE, ".", "7", "z", "*", " ">>
                \o <<QUOTE>> \o basefilepath \o S_par2 \o <<QUOTE>>)

\* Archiver7z.build_rm_command(filepath), self.rm_command = rm
Archiver7z_build_rm_command(rm, filepath) ==
    IF suffix(filepath) \notin {S_7z, S_001} THEN Raised("AssertionError")
    ELSE LET basename == Archiver7z_get_basename(filepath.name)
             basefilepath == str(resolve(with_name(filepath, basename)))
         IN  Returned(rm \o <<" ", QUOTE>> \o basefilepath
                \o <<QUOTE, ".", "7", "z", "*", " ">>
                \o <<QUOTE>> \o basefilepath \o S_par2 \o <<QUOTE>>)

\* Archiver7z.find_archive_files(files)
Archiver7z_find_archive_files(names) ==
    {filename \in names : Archiver7z_is_7zip(filename)}

----------------------------------------------------------------------------
(* File names the calls are made with *)

RECURSIVE SubsetsUpTo(_, _)
SubsetsUpTo(pool, n) ==
    IF n = 0 THEN {{}}
    ELSE LET prev == SubsetsUpTo(pool, n - 1)
         IN  prev \cup {s \cup {x} : s \in prev, x \in pool}

Exts ==
    { S_rar, <<".", "R", "A", "R">>, S_r00, <<".", "r", "0", "1">>,
      S_part \o <<"1">> \o S_rar, S_part \o <<"0", "1">> \o S_rar,
      S_part \o <<"0">> \o S_rar, S_part \o <<"2">> \o S_rar,
      S_part \o <<"1", "0">> \o S_rar, S_part \o <<"1", "1">> \o S_rar,
      <<".", "P", "A", "R", "T", "1", ".", "r", "a", "r">>,
      S_part \o <<"2">> \o S_r00,
      S_rar \o <<LF>>,
      S_7z, <<".", "7", "Z">>, S_7z \o S_001, S_7z \o <<".", "0", "0", "2">>,
      S_7z \o <<".", "1">>, S_7z \o <<".", "0", "1", "0">>, S_7z \o <<LF>>,
      <<".", "r", "a", "x">>, <<".", "7", "y">>, <<".", "0", "0", "2">>, <<>> }

\* file names of one directory
NamePool == {<<"x">> \o e : e \in Exts} \cup {<<"y">> \o S_rar, <<"y">> \o S_7z}

\* file names whose stem ends in a suffix of its own
StackedExts ==
    { S_rar \o S_rar, S_rar \o S_rar \o <<LF>>, S_part \o <<"1">>,
      S_part \o <<"1">> \o S_part \o <<"2">> \o S_rar,
      S_7z \o S_7z, S_7z \o S_001 \o S_7z, S_7z \o S_rar, S_rar \o S_7z \o S_001 }

\* file names get_basename is called with
BasenamePool == NamePool \cup {<<"x">> \o e : e \in StackedExts}

\* directories a path is given in: none (relative), relative, absolute
Parents == {<<>>, <<"s">>, <<"/", "a">>}

----------------------------------------------------------------------------
(* Direct calls of the classifier methods: one call on a fresh classifier  *)
(* object per behaviour.                                                   *)

NoCall ==
    [fn |-> "", names |-> {}, path |-> Path(<<>>, <<>>), found |-> {},
     out |-> Returned(<<>>)]

CallRarFind ==
    /\ ret = NoCall
    /\ \E names \in SubsetsUpTo(NamePool, MaxFiles) :
          ret' = [NoCall EXCEPT !.fn = "ArchiverRar.find_archive_files",
                                !.names = names,
                                !.found = ArchiverRar_find_archive_files(names)]
    /\ UNCHANGED <<win, mainvars>>

Call7zFind ==
    /\ ret = NoCall
    /\ \E names \in SubsetsUpTo(NamePool, MaxFiles) :
          ret' = [NoCall EXCEPT !.fn = "Archiver7z.find_archive_files",
                                !.names = names,
                                !.found = Archiver7z_find_archive_files(names)]
    /\ UNCHANGED <<win, mainvars>>

CallRarBuildRm ==
    /\ ret = NoCall
    /\ \E parent \in Parents, name \in NamePool,
          names \in SubsetsUpTo(NamePool, MaxFiles) :
          ret' = [NoCall EXCEPT !.fn = "ArchiverRar.build_rm_command",
                                !.names = names,
                                !.path = Path(parent, name),
                                !.out = ArchiverRar_build_rm_command(
                                            rm_command(win), Path(parent, name), names)]
    /\ UNCHANGED <<win, mainvars>>

Call7zBuildRm ==
    /\ ret = NoCall
    /\ \E parent \in Parents, name \in NamePool :
          ret' = [NoCall EXCEPT !.fn = "Archiver7z.build_rm_command",
                                !.path = Path(parent, name),
                                !.out = Archiver7z_build_rm_command(
                                            rm_command(win), Path(parent, name))]
    /\ UNCHANGED <<win, mainvars>>

CallRarBasename ==
    /\ ret = NoCall
    /\ \E name \in BasenamePool :
          ret' = [NoCall EXCEPT !.fn = "ArchiverRar.get_basename",
                                !.path = Path(<<>>, name),
                                !.out = Returned(ArchiverRar_get_basename(name))]
    /\ UNCHANGED <<win, mainvars>>

Call7zBasename ==
    /\ ret = NoCall
    /\ \E name \in BasenamePool :
          ret' = [NoCall EXCEPT !.fn = "Archiver7z.get_basename",
                                !.path = Path(<<>>, name),
                                !.out = Returned(Archiver7z_get_basename(name))]
    /\ UNCHANGED <<win, mainvars>>

MainIdle ==
    /\ pc = "walk"
    /\ visited = <<>>
    /\ root = <<>>
    /\ files = {}
    /\ archives = {}
    /\ pwd = None
    /\ commands = <<>>
    /\ entries = <<>>
    /\ found = {}
    /\ stdout = <<>>
    /\ exit = ""

LibInit ==
    /\ win \in BOOLEAN
    /\ ret = NoCall
    /\ MainIdle

LibNext ==
    \/ CallRarFind
    \/ Call7zFind
    \/ CallRarBuildRm
    \/ Call7zBuildRm
    \/ CallRarBasename
    \/ Call7zBasename

LibSpec == LibInit /\ [][LibNext]_vars

----------------------------------------------------------------------------
(* main(): constants and text *)

COOLDOWN_THRESHOLD_MB == 300
COOLDOWN_SECONDS == 60

\* __version__, __updated__ in version_string
T_version_string == <<"NzbDownloadsMultiUnpack 1.7.0 (2024-01-20)">>
\* datetime.now().isoformat(): one opaque piece of text
T_now == <<"NOW">>

T_timeout == <<"t", "i", "m", "e", "o", "u", "t">>
T_sleep == <<"s", "l", "e", "e", "p">>
T_REM == <<"R", "E", "M", " ">>
T_hash == <<"#", " ">>
T_7z_x == <<"7", "z", " ", "x", " ", "-", "a", "o", "s", " ", "-", "o", QUOTE>>
T_unrar_x == <<"u", "n", "r", "a", "r", " ", "x", " ", "-", "o", "-">>
T_p == <<" ", "-", "p", QUOTE>>
T_and == <<" ", "&", "&", " ">>
T_semi == <<" ", ";", " ">>
T_chcp == <<"c", "h", "c", "p", " ", "1", "2", "5", "2">>
T_created_by == <<"c", "r", "e", "a", "t", "e", "d", " ", "b", "y", " ">>
T_at == <<" ", "a", "t", " ">>
T_entries == <<" ", "e", "n", "t", "r", "i", "e", "s">>

\* '-' * 50
Dashes == [i \in 1..50 |-> "-"]

sleep_cmd(w) == IF w THEN T_timeout ELSE T_sleep
comment(w) == IF w THEN T_REM ELSE T_hash

\* re.search(PASSWORD_REGEX, text) with PASSWORD_REGEX = r"\{\{([^}]+)\}\}":
\* group(1) of the leftmost match, or None.  At a start i the class [^}]+
\* takes the whole run of non-"}" characters, which "}}" must follow.
PasswordRun(text, i) ==
    Max({n \in 0..(Len(text) - i - 1) :
            \A j \in (i + 2)..(i + 1 + n) : text[j] # "}"})

PasswordMatchAt(text, i) ==
    /\ i + 1 <= Len(text)
    /\ text[i] = "{" /\ text[i + 1] = "{"
    /\ LET n == PasswordRun(text, i)
       IN  /\ n >= 1
           /\ i + 3 + n <= Len(text)
           /\ text[i + 2 + n] = "}" /\ text[i + 3 + n] = "}"

PasswordSearch(text) ==
    LET starts == {i \in 1..Len(text) : PasswordMatchAt(text, i)}
    IN  IF starts = {} THEN None
        ELSE LET i == CHOOSE k \in starts : \A m \in starts : k <= m
             IN  Some(SubSeq(text, i + 2, i + 1 + PasswordRun(text, i)))

\* lines 264-276: the value of pwd after the lookup for one archive,
\* starting from the value prev that pwd has when the iteration begins
LookupPassword(prev, dirpath, filename) ==
    LET m == PasswordSearch(dirpath)
    IN  IF m.some THEN m
        ELSE LET f == PasswordSearch(filename)
             IN  IF f.some THEN f ELSE prev

\* Path(root).resolve() as text
absolute(d) == resolve(Path(d, <<>>)).parent

\* os.stat(filepath).st_size / 1024.0 / 1024.0: dividing by a power of two
\* is exact in binary floating point, so the quotient is kept as the
\* integer part and the remaining bytes
filesize_mb(st_size) ==
    [whole |-> st_size \div (1024 * 1024), bytes |-> st_size % (1024 * 1024)]

\* the comparison after an integer division (//) of the size
ExceedsThreshold_Floor(mb) == mb.whole > COOLDOWN_THRESHOLD_MB

\* filesize_mb > COOLDOWN_THRESHOLD_MB
ExceedsThreshold(mb) ==
    mb.whole > COOLDOWN_THRESHOLD_MB
    \/ (mb.whole = COOLDOWN_THRESHOLD_MB /\ mb.bytes > 0)

\* an extraction command that picks the tool by family alone
ExtractCommand_FamilyOnly(w, filename, p, filepath, targetdir) ==
    IF Archiver7z_is_7zip(filename)
    THEN IF p.some
         THEN T_7z_x \o targetdir \o <<"/", QUOTE>> \o T_p \o p.val
                \o <<QUOTE, " ", QUOTE>> \o filepath \o <<QUOTE>>
         ELSE T_7z_x \o targetdir \o <<"/", QUOTE>>
                \o <<" ", QUOTE>> \o filepath \o <<QUOTE>>
    ELSE IF p.some
         THEN T_unrar_x \o T_p \o p.val \o <<QUOTE, " ", QUOTE>> \o filepath
                \o <<QUOTE, " ", QUOTE>> \o targetdir \o <<"/", QUOTE>>
         ELSE T_unrar_x \o <<" ", QUOTE>> \o filepath
                \o <<QUOTE, " ", QUOTE>> \o targetdir \o <<"/", QUOTE>>

\* lines 289-304: the extraction command
ExtractCommand(w, filename, p, filepath, targetdir) ==
    IF Archiver7z_is_7zip(filename) \/ w
    THEN IF p.some
         THEN T_7z_x \o targetdir \o <<"/", QUOTE>> \o T_p \o p.val
                \o <<QUOTE, " ", QUOTE>> \o filepath \o <<QUOTE>>
         ELSE T_7z_x \o targetdir \o <<"/", QUOTE>>
                \o <<" ", QUOTE>> \o filepath \o <<QUOTE>>
    ELSE IF p.some
         THEN T_unrar_x \o T_p \o p.val \o <<QUOTE, " ", QUOTE>> \o filepath
                \o <<QUOTE, " ", QUOTE>> \o targetdir \o <<"/", QUOTE>>
         ELSE T_unrar_x \o <<" ", QUOTE>> \o filepath
                \o <<QUOTE, " ", QUOTE>> \o targetdir \o <<"/", QUOTE>>

\* lines 314-318: the removal command of the archive's family
RemoveCommand(w, filename, filepath, dirnames) ==
    IF Archiver7z_is_7zip(filename)
    THEN Archiver7z_build_rm_command(rm_command(w), filepath)
    ELSE ArchiverRar_build_rm_command(rm_command(w), filepath, dirnames)

\* lines 321-322
Cooldown(w, st_size) ==
    IF ExceedsThreshold(filesize_mb(st_size))
    THEN T_semi \o sleep_cmd(w) \o <<" ">> \o ToDecimal(COOLDOWN_SECONDS)
    ELSE <<>>

\* lines 339-348
has_non_ascii(cmds) == \E i \in 1..Len(cmds) : isascii(cmds[i])

CodepageLines(w, cmds) ==
    IF w /\ has_non_ascii(cmds)
    THEN <<T_chcp, comment(w) \o Dashes>>
    ELSE <<>>

\* separators numbered like enumerate() counts, from 0
RECURSIVE CommandLines_ZeroBased(_, _, _)
CommandLines_ZeroBased(w, cmds, i) ==
    IF i > Len(cmds) THEN <<>>
    ELSE <<comment(w) \o <<"-", "-", " ">> \o ToDecimal(i - 1) \o <<".", " ">> \o Dashes,
           cmds[i]>> \o CommandLines_ZeroBased(w, cmds, i + 1)

\* lines 350-354
RECURSIVE CommandLines(_, _, _)
CommandLines(w, cmds, i) ==
    IF i > Len(cmds) THEN <<>>
    ELSE <<comment(w) \o <<"-", "-", " ">> \o ToDecimal(i) \o <<".", " ">> \o Dashes,
           cmds[i]>> \o CommandLines(w, cmds, i + 1)

\* lines 332-356: the lines of print(output.getvalue()); print ends the
\* text with one more line break, which leaves an empty last line
Script(w, cmds) ==
    <<comment(w) \o T_created_by \o T_version_string \o T_at \o T_now,
      comment(w) \o ToDecimal(Len(cmds)) \o T_entries>>
    \o CodepageLines(w, cmds)
    \o CommandLines(w, cmds, 1)
    \o << <<>> >>

----------------------------------------------------------------------------
(* The tree main() walks *)

Threshold == COOLDOWN_THRESHOLD_MB * 1024 * 1024

\* files a directory may hold, with the size os.stat reports
FilePool ==
    { [name |-> <<"a">> \o S_rar,                          st_size |-> Threshold + 1],
      [name |-> <<"b", "{", "{", "p", "}", "}">> \o S_7z,  st_size |-> Threshold],
      [name |-> <<"a">> \o S_r00,                          st_size |-> Threshold + 1],
      [name |-> <<"X", ".", "R", "A", "R">>,               st_size |-> 0],
      [name |-> <<"c">> \o S_part \o <<"1">> \o S_rar,     st_size |-> Threshold - 1] }

\* <directory> on the command line
rootdir == <<"r">>

\* sub-directories of rootdir
SubDirs == { rootdir \o <<"/", "d", "{", "{", "q", "}", "}">>,
             rootdir \o <<"/", EACUTE>> }

Names(fs) == {f.name : f \in fs}

InSeq(x, sq) == \E i \in 1..Len(sq) : sq[i] = x

----------------------------------------------------------------------------
(* main() *)

Init ==
    /\ win \in BOOLEAN
    /\ ret = NoCall
    /\ MainIdle

\* lines 252-261: os.walk yields the next directory; its archives are found
WalkDirectory ==
    /\ pc = "walk"
    /\ Len(visited) < MaxDirs
    /\ \E d \in (IF visited = <<>> THEN {rootdir} ELSE SubDirs),
          listing \in SubsetsUpTo(FilePool, MaxFiles) :
          /\ ~InSeq(d, visited)
          /\ LET reps == ArchiverRar_find_archive_files(Names(listing))
                            \cup Archiver7z_find_archive_files(Names(listing))
             IN  /\ root' = d
                 /\ files' = listing
                 /\ visited' = Append(visited, d)
                 /\ archives' = reps
                 /\ found' = found \cup {<<d, filename>> : filename \in reps}
                 /\ pwd' = IF reps = {} THEN pwd ELSE None
                 /\ pc' = IF reps = {} THEN "walk" ELSE "archives"
    /\ UNCHANGED <<win, ret, commands, entries, stdout, exit>>

\* lines 265-325: one iteration of "for filename in archives"; a set is
\* iterated in no particular order
ProcessArchive ==
    /\ pc = "archives"
    /\ \E filename \in archives :
          LET file == CHOOSE f \in files : f.name = filename
              newpwd == LookupPassword(pwd, root, filename)
              filepath == resolve(Path(root, filename))
              targetdir == absolute(root)
              rm == RemoveCommand(win, filename, filepath, Names(files))
              cmd == ExtractCommand(win, filename, newpwd, str(filepath), targetdir)
                       \o T_and \o rm.value \o Cooldown(win, file.st_size)
          IN  /\ pwd' = newpwd
              /\ IF rm.raised # ""
                 THEN /\ exit' = rm.raised
                      /\ pc' = "done"
                      /\ UNCHANGED <<archives, commands, entries>>
                 ELSE /\ commands' = Append(commands, cmd)
                      /\ entries' = Append(entries,
                            [root |-> root, filename |-> filename, pwd |-> newpwd,
                             st_size |-> file.st_size])
                      /\ archives' = archives \ {filename}
                      /\ pc' = IF archives' = {} THEN "walk" ELSE "archives"
                      /\ exit' = exit
    /\ UNCHANGED <<win, ret, visited, root, files, found, stdout>>

\* lines 327-358: the walk is over
Finish ==
    /\ pc = "walk"
    /\ pc' = "done"
    /\ IF commands = <<>>
       THEN exit' = "2" /\ stdout' = stdout
       ELSE exit' = "0" /\ stdout' = Script(win, commands)
    /\ UNCHANGED <<win, ret, visited, root, files, archives, pwd, commands, entries,
                   found>>

Next == WalkDirectory \/ ProcessArchive \/ Finish

Spec == Init /\ [][Next]_vars

----------------------------------------------------------------------------
(* What the claims speak of, spelled out from their own words *)

Contains(s, sub) ==
    \E i \in 0..(Len(s) - Len(sub)) : SubSeq(s, i + 1, i + Len(sub)) = sub

\* the digits a name ends with, once tail (lower case) is taken off its end
DigitsBefore(f, tail) ==
    LET q == Take(f, Len(f) - Len(tail))
    IN  Drop(q, Len(q) - DigitRun(q))

\* x.partK.rar, K one or more digits, in any letter case
IsModernPart(f) ==
    /\ endswith(lower(f), S_rar)
    /\ DigitsBefore(f, S_rar) # <<>>
    /\ endswith(lower(Take(f, Len(f) - 4 - Len(DigitsBefore(f, S_rar)))), S_part)

PartNumber(f) == NumVal(DigitsBefore(f, S_rar))

\* x.rNN, a volume of a legacy set
IsLegacyPart(f) ==
    /\ DigitsBefore(f, <<>>) # <<>>
    /\ endswith(lower(Take(f, Len(f) - Len(DigitsBefore(f, <<>>)))), <<".", "r">>)

\* x.7z.<digits>
Is7zPart(f) ==
    /\ DigitsBefore(f, <<>>) # <<>>
    /\ endswith(lower(Take(f, Len(f) - Len(DigitsBefore(f, <<>>)))), S_7z \o <<".">>)

\* a suffix that is a dot and digits
IsNumericSuffix(sfx) ==
    Len(sfx) >= 2 /\ sfx[1] = "." /\ \A i \in 2..Len(sfx) : IsDigit(sfx[i])

CalledRarFind == ret.fn = "ArchiverRar.find_archive_files"
Called7zFind == ret.fn = "Archiver7z.find_archive_files"
CalledRarBuildRm == ret.fn = "ArchiverRar.build_rm_command"
Called7zBuildRm == ret.fn = "Archiver7z.build_rm_command"

\* the password the claims give an archive: the directory path's first
\* {{...}}, else the file name's, else none
ResolvedPassword(dirpath, filename) ==
    IF PasswordSearch(dirpath).some THEN PasswordSearch(dirpath)
    ELSE PasswordSearch(filename)

----------------------------------------------------------------------------
(* C1 *)

\* C1: every archive's extraction command carries the password of the
\* directory path's first {{...}}, else of its own file name's first {{...}},
\* else no -p flag at all, whatever was processed before it.
C1_PasswordPerArchive ==
    \A i \in 1..Len(commands) :
        LET want == ResolvedPassword(entries[i].root, entries[i].filename)
        IN  IF want.some
            THEN Contains(commands[i], T_p \o want.val \o <<QUOTE>>)
            ELSE ~Contains(commands[i], <<"-", "p">>)

----------------------------------------------------------------------------
(* C2 *)

\* C2: when the list holds x.rar together with x.r00, the RAR classifier
\* returns x.rar, and it returns no file with a .rNN suffix.
C2_LegacySetRepresentative ==
    CalledRarFind =>
        /\ \A f \in ret.names :
              (endswith(f, S_rar) /\ (Take(f, Len(f) - 4) \o S_r00) \in ret.names)
                  => f \in ret.found
        /\ \A f \in ret.found : ~IsLegacyPart(f)

----------------------------------------------------------------------------
(* C3 *)

\* C3: of the modern parts x.partK.rar in the list, the RAR classifier
\* returns exactly those whose K has the numeric value 1.
C3_ModernFirstPartOnly ==
    CalledRarFind =>
        \A f \in ret.names :
            IsModernPart(f) => (f \in ret.found <=> PartNumber(f) = 1)

\* a list with a zero-padded first part that is returned and a part 10 that is not
C3_Witness ==
    /\ CalledRarFind
    /\ \E f, g \in ret.names :
          /\ IsModernPart(f) /\ Len(DigitsBefore(f, S_rar)) = 2 /\ PartNumber(f) = 1
          /\ f \in ret.found
          /\ IsModernPart(g) /\ PartNumber(g) = 10 /\ g \notin ret.found

----------------------------------------------------------------------------
(* C4 *)

\* C4: the 7-Zip classifier returns exactly the names that end, in any letter
\* case, in .7z or in .7z.<digits> with the digits' value 1.
C4_SevenZipRepresentatives ==
    Called7zFind =>
        ret.found = {f \in ret.names :
                        \/ endswith(lower(f), S_7z)
                        \/ Is7zPart(f) /\ NumVal(DigitsBefore(f, <<>>)) = 1}

----------------------------------------------------------------------------
(* C5 *)

\* C5: a classifier returns no two distinct names with the same basename
\* and no name that is a non-first volume of a set.
C5_OneRepresentativePerSet ==
    /\ CalledRarFind =>
          /\ \A f, g \in ret.found :
                f # g => ArchiverRar_get_basename(f) # ArchiverRar_get_basename(g)
          /\ \A f \in ret.found :
                ~IsLegacyPart(f) /\ (IsModernPart(f) => PartNumber(f) = 1)
    /\ Called7zFind =>
          /\ \A f, g \in ret.found :
                f # g => Archiver7z_get_basename(f) # Archiver7z_get_basename(g)
          /\ \A f \in ret.found :
                Is7zPart(f) => NumVal(DigitsBefore(f, <<>>)) = 1

----------------------------------------------------------------------------
(* C6 *)

C6_Expected ==
    LET name == ret.path.name
        dir == absolute(ret.path.parent)
        base == dir \o <<"/">> \o ArchiverRar_get_basename(name)
        self == dir \o <<"/">> \o name
        del == IF win THEN <<"d", "e", "l", " ", "/", "q">> ELSE <<"r", "m", " ", "-", "f", "v">>
    IN  IF IsModernPart(name) /\ PartNumber(name) = 1
        THEN del \o <<" ", QUOTE>> \o base \o <<QUOTE>> \o <<".", "p", "a", "r", "t", "*", ".", "r", "a", "r", " ">>
               \o <<QUOTE>> \o base \o <<".", "p", "a", "r", "2", QUOTE>>
        ELSE IF (ArchiverRar_get_basename(name) \o S_r00) \in ret.names
        THEN del \o <<" ", QUOTE>> \o self \o <<QUOTE, " ", QUOTE>> \o base
               \o <<QUOTE>> \o <<".", "r", "*", " ">> \o <<QUOTE>> \o base \o <<".", "p", "a", "r", "2", QUOTE>>
        ELSE del \o <<" ", QUOTE>> \o self \o <<QUOTE, " ", QUOTE>> \o base
               \o <<".", "p", "a", "r", "2", QUOTE>>

\* C6: for a representative with extension .rar the RAR removal command is
\* the platform's delete command with <basename>.part*.rar and
\* <basename>.par2 for a modern first part, else with the representative,
\* <basename>.r* and <basename>.par2 when <basename>.r00 exists, else with
\* the representative and <basename>.par2; every path is absolute.
C6_RemovalPatterns ==
    ( /\ CalledRarBuildRm
      /\ suffix(ret.path) = S_rar
      /\ ret.path.name \in ArchiverRar_find_archive_files({ret.path.name}) )
    => /\ ret.out = Returned(C6_Expected)
       /\ absolute(ret.path.parent)[1] = "/"

\* a relative path of a legacy set's .rar, whose .r00 exists
C6_Witness ==
    /\ CalledRarBuildRm
    /\ ret.path = Path(<<"s">>, <<"x">> \o S_rar)
    /\ (<<"x">> \o S_r00) \in ret.names
    /\ ret.out.raised = ""
    /\ Contains(ret.out.value, <<"/", "w", "/", "s", "/", "x", QUOTE, ".", "r", "*", " ">>)

----------------------------------------------------------------------------
(* C7 *)

\* C7: the RAR builder fails with an assertion failure for every path whose
\* extension is not .rar, the 7-Zip builder for every path whose extension
\* is neither .7z nor a numeric volume suffix.
C7_ForeignExtensionAsserts ==
    /\ (CalledRarBuildRm /\ suffix(ret.path) # S_rar)
          => ret.out = Raised("AssertionError")
    /\ (Called7zBuildRm /\ suffix(ret.path) # S_7z /\ ~IsNumericSuffix(suffix(ret.path)))
          => ret.out = Raised("AssertionError")

\* the RAR builder was given a path that ends in .RAR and raised
C7_Witness ==
    /\ CalledRarBuildRm
    /\ suffix(ret.path) = <<".", "R", "A", "R">>
    /\ ret.out.raised = "AssertionError"

----------------------------------------------------------------------------
(* C8 *)

\* C8: chcp 1252 is in the script only on Windows and only when some
\* command line has a non-ASCII character.
C8_CodepageOnlyForNonAscii ==
    InSeq(<<"c", "h", "c", "p", " ", "1", "2", "5", "2">>, stdout) =>
        (win /\ \E i \in 1..Len(commands) : ~isascii(commands[i]))

----------------------------------------------------------------------------
(* C9 *)

\* a representative was found in some directory: one was processed, or one
\* is the archive main() stopped at
FoundRepresentative == entries # <<>> \/ archives # {}

\* C9: main ends with exit code 2 and nothing on standard output exactly
\* when no representative was found in any directory; otherwise it returns
\* 0 after writing the script.
C9_EmptyResultExit ==
    pc = "done" =>
        IF FoundRepresentative
        THEN exit = "0" /\ stdout # <<>>
        ELSE exit = "2" /\ stdout = <<>>

----------------------------------------------------------------------------
(* C10 *)

\* C10: a command line ends with " ; sleep 60" (POSIX) or " ; timeout 60"
\* (Windows) exactly when the representative's size is above 300 * 1024 *
\* 1024 bytes.
C10_CooldownAboveThreshold ==
    \A i \in 1..Len(commands) :
        endswith(commands[i],
                 IF win THEN <<" ", ";", " ", "t", "i", "m", "e", "o", "u", "t", " ", "6", "0">> ELSE <<" ", ";", " ", "s", "l", "e", "e", "p", " ", "6", "0">>)
        <=> entries[i].st_size > 300 * 1024 * 1024

\* one byte above the threshold with the directive, and exactly at the
\* threshold without it
C10_Witness ==
    \E i, j \in 1..Len(commands) :
        /\ entries[i].st_size = 300 * 1024 * 1024 + 1
        /\ endswith(commands[i], <<" ", "6", "0">>)
        /\ entries[j].st_size = 300 * 1024 * 1024
        /\ ~endswith(commands[j], <<" ", "6", "0">>)

----------------------------------------------------------------------------
(* C11 *)

startswith(s, pre) == Len(s) >= Len(pre) /\ Take(s, Len(pre)) = pre

\* the family of a representative: the classifier that returns it
Is7zRepresentative(filename) == filename \in Archiver7z_find_archive_files({filename})
IsRarRepresentative(filename) == filename \in ArchiverRar_find_archive_files({filename})

\* the removal commands the classifier of the entry's family builds for it;
\* the RAR builder's answer depends on whether the .r00 sibling exists
FamilyRemovals(e) ==
    LET filepath == resolve(Path(e.root, e.filename))
    IN  IF Is7zRepresentative(e.filename)
        THEN {Archiver7z_build_rm_command(rm_command(win), filepath).value}
        ELSE {ArchiverRar_build_rm_command(rm_command(win), filepath, sibs).value :
                 sibs \in {{}, {with_suffix(filepath, S_r00).name}}}

\* C11: on Windows every entry extracts with 7z; on POSIX a RAR
\* representative extracts with unrar and a 7-Zip representative with 7z;
\* the removal command after " && " is the one the classifier of the
\* representative's own family builds.
C11_ToolByFamilyAndPlatform ==
    \A i \in 1..Len(commands) :
        LET e == entries[i]
        IN  /\ Is7zRepresentative(e.filename) # IsRarRepresentative(e.filename)
            /\ IF win \/ Is7zRepresentative(e.filename)
               THEN startswith(commands[i], <<"7", "z", " ", "x", " ">>)
               ELSE startswith(commands[i], <<"u", "n", "r", "a", "r", " ", "x", " ">>)
            /\ \E rm \in FamilyRemovals(e) :
                  Contains(commands[i], <<" ", "&", "&", " ">> \o rm)

\* on Windows a RAR representative is extracted with 7z and removed by the
\* RAR builder's del command
C11_Witness ==
    /\ win
    /\ \E i \in 1..Len(commands) :
          /\ IsRarRepresentative(entries[i].filename)
          /\ startswith(commands[i], <<"7", "z", " ", "x", " ">>)
          /\ Contains(commands[i], <<" ", "&", "&", " ", "d", "e", "l", " ", "/", "q", " ", QUOTE, "/", "w", "/", "r", "/", "a", ".", "r", "a", "r", QUOTE>>)

----------------------------------------------------------------------------
(* C12 *)

\* where a directory comes in the walk
WalkIndex(d) == CHOOSE k \in 1..Len(visited) : visited[k] = d

\* the separator comment before the i-th command line
C12_Separator(i) ==
    (IF win THEN <<"R", "E", "M", " ">> ELSE <<"#", " ">>) \o <<"-", "-", " ">> \o ToDecimal(i)
        \o <<".", " ">> \o [k \in 1..50 |-> "-"]

\* C12: when main ends with at least one command, the script has one
\* command line for each (directory, representative) pair the walk found,
\* the "N entries" comment gives that number, and the script ends with the
\* command lines, each after a separator numbered 1..N, in the order the
\* entries were collected, directories in walk order.
C12_ScriptStructure ==
    exit = "0" =>
        LET N == Cardinality(found)
            base == Len(stdout) - 1 - 2 * N
        IN  /\ Len(commands) = N
            /\ {<<entries[i].root, entries[i].filename>> : i \in 1..N} = found
            /\ stdout[2] = (IF win THEN <<"R", "E", "M", " ">> ELSE <<"#", " ">>)
                              \o ToDecimal(N) \o <<" ", "e", "n", "t", "r", "i", "e", "s">>
            /\ base \in {2, 4}
            /\ \A i \in 1..N :
                  /\ stdout[base + 2 * i - 1] = C12_Separator(i)
                  /\ stdout[base + 2 * i] = commands[i]
            /\ \A i \in 1..base : stdout[i] \notin {commands[k] : k \in 1..N}
            /\ \A i, j \in 1..N :
                  i < j => WalkIndex(entries[i].root) <= WalkIndex(entries[j].root)

\* a script of three commands from two directories
C12_Witness ==
    /\ exit = "0"
    /\ Len(commands) = 3
    /\ entries[1].root # entries[3].root
    /\ stdout[Len(stdout) - 2] = C12_Separator(3)

----------------------------------------------------------------------------
(* C13 *)

CalledRarBasename == ret.fn = "ArchiverRar.get_basename"
Called7zBasename == ret.fn = "Archiver7z.get_basename"

\* suffixes put back on a derived basename
RarPartSuffixes ==
    { S_part \o <<"1">> \o S_rar, S_part \o <<"0", "2">> \o S_rar,
      <<".", "P", "A", "R", "T", "1", "0", ".", "R", "A", "R">> }
SevenZipSuffixes ==
    { S_7z, S_7z \o S_001, S_7z \o <<".", "0", "0", "2">>, <<".", "7", "Z", ".", "1", "0">> }

\* a text without the one line break it may end with
WithoutFinalBreak(b) == IF b # <<>> /\ b[Len(b)] = LF THEN Take(b, Len(b) - 1) ELSE b

\* the text ends in ".part" and digits, in any letter case
EndsInPartSegment(b) ==
    /\ DigitsBefore(b, <<>>) # <<>>
    /\ endswith(lower(Take(b, Len(b) - Len(DigitsBefore(b, <<>>)))), S_part)

\* the text still ends in a suffix of the family
StillRarSuffixed(b) == endswith(lower(WithoutFinalBreak(b)), S_rar)
Still7zSuffixed(b) ==
    LET t == WithoutFinalBreak(b)
    IN  \/ endswith(lower(t), S_7z)
        \/ /\ DigitsBefore(t, <<>>) # <<>>
           /\ endswith(lower(Take(t, Len(t) - Len(DigitsBefore(t, <<>>)))),
                       S_7z \o <<".">>)

\* C13 as stated: for every file name the basename of the basename is the
\* basename, and the basename with a family suffix put back (.rar or
\* .partN.rar, .7z or .7z.NNN) has the same basename again.
C13_BasenameIdempotent ==
    /\ CalledRarBasename =>
          LET b == ret.out.value
          IN  /\ ArchiverRar_get_basename(b) = b
              /\ \A sfx \in {S_rar} \cup RarPartSuffixes :
                    ArchiverRar_get_basename(b \o sfx) = b
    /\ Called7zBasename =>
          LET b == ret.out.value
          IN  /\ Archiver7z_get_basename(b) = b
              /\ \A sfx \in SevenZipSuffixes : Archiver7z_get_basename(b \o sfx) = b

\* C13 amended: the suffix is stripped once.  The basename of the basename
\* is the basename when the basename does not still end in a suffix of the
\* family; the basename with .partN.rar, .7z or .7z.NNN put back always has
\* the same basename again, and with .rar put back it has unless it ends in
\* .part and digits.
C13_BasenameStrippedOnce ==
    /\ CalledRarBasename =>
          LET b == ret.out.value
          IN  /\ ~StillRarSuffixed(b) => ArchiverRar_get_basename(b) = b
              /\ \A sfx \in RarPartSuffixes : ArchiverRar_get_basename(b \o sfx) = b
              /\ ~EndsInPartSegment(b) => ArchiverRar_get_basename(b \o S_rar) = b
    /\ Called7zBasename =>
          LET b == ret.out.value
          IN  /\ ~Still7zSuffixed(b) => Archiver7z_get_basename(b) = b
              /\ \A sfx \in SevenZipSuffixes : Archiver7z_get_basename(b \o sfx) = b

\* the basename of a first part of a modern set was derived
C13_Witness ==
    /\ CalledRarBasename
    /\ ret.path.name = <<"x">> \o S_part \o <<"1">> \o S_rar
    /\ ret.out.value = <<"x">>

----------------------------------------------------------------------------
(* C14 *)

\* C14: for every list of file names, every name a classifier's
\* find_archive_files returns passes the extension assertion of the
\* removal builder main calls for it (the 7-Zip builder when is_7zip
\* holds, the RAR builder otherwise), so main raises no AssertionError on
\* a file its classifiers selected.
C14_SelectedFilesPassAssertion ==
    (CalledRarFind \/ Called7zFind) =>
        \A filename \in ret.found :
            RemoveCommand(win, filename, resolve(Path(rootdir, filename)),
                          ret.names).raised = ""

----------------------------------------------------------------------------
(* C15 *)

\* the words of a command line, split at its spaces
RECURSIVE ShellWords(_)
ShellWords(s) ==
    IF s = <<>> THEN {}
    ELSE IF \E i \in 1..Len(s) : s[i] = " "
         THEN LET i == CHOOSE k \in 1..Len(s) :
                           s[k] = " " /\ \A j \in 1..(k - 1) : s[j] # " "
              IN  (IF i = 1 THEN {} ELSE {Take(s, i - 1)}) \cup ShellWords(Drop(s, i))
         ELSE {s}

\* a word as the shell hands it on: without its quotes
Unquote(word) == SelectSeq(word, LAMBDA c : c # QUOTE)

\* the path patterns a removal command names (its words after the command
\* and its option)
RemovalPatterns(w, rm) ==
    {Unquote(word) : word \in ShellWords(Drop(rm, Len(rm_command(w))))}

\* a pattern with at most one "*" matches a path, letter for letter; the
\* "*" stands for any text without "/"
GlobMatch(pat, path) ==
    IF \E i \in 1..Len(pat) : pat[i] = "*"
    THEN LET i == CHOOSE k \in 1..Len(pat) : pat[k] = "*"
             pre == Take(pat, i - 1)
             post == Drop(pat, i)
         IN  /\ Len(path) >= Len(pre) + Len(post)
             /\ startswith(path, pre)
             /\ endswith(path, post)
             /\ \A j \in (Len(pre) + 1)..(Len(path) - Len(post)) : path[j] # "/"
    ELSE pat = path

\* the representatives main collects from one directory listing
Representatives(names) ==
    ArchiverRar_find_archive_files(names) \cup Archiver7z_find_archive_files(names)

\* the removal patterns of one entry match the representative of another
Deletes(w, names, e1, e2) ==
    LET rm == RemoveCommand(w, e1, resolve(Path(rootdir, e1)), names)
    IN  /\ rm.raised = ""
        /\ \E pat \in RemovalPatterns(w, rm.value) :
              GlobMatch(pat, str(resolve(Path(rootdir, e2))))

\* C15: within one directory, the removal patterns built for one entry
\* match the representative file of no other entry, so running the entries
\* in order deletes no archive a later entry still has to extract.
C15_RemovalSparesOtherEntries ==
    (CalledRarFind \/ Called7zFind) =>
        \A e1, e2 \in Representatives(ret.names) :
            e1 # e2 => ~Deletes(win, ret.names, e1, e2)

====
